---- MODULE Spec2Model ----
(***************************************************************************)
(* Charlotte's Misfits: the browser client (CardGame, frontend/index.ts),  *)
(* the Durable Object that stores the match and queries the decision       *)
(* oracle (GameDataServer, src/index.ts), and the WebSocket between them.  *)
(*                                                                         *)
(* A card is an integer 4*rank + suit with rank 2..14 and suit 0..3 in the *)
(* alphabetical order clubs, diamonds, hearts, spades that sortHand uses,  *)
(* so the order of the integers is the order of sortHand.                  *)
(***************************************************************************)
EXTENDS Integers, Sequences, FiniteSets, TLC

VARIABLES
    game,       \* the fields of the CardGame object (and the destroyed cards)
    loaded,     \* the client has handled state-load or state-none
    opened,     \* the socket's open event has been handled
    c2s,        \* messages the client has sent and the server has not handled
    s2c,        \* messages the server has sent and the client has not handled
    srvState,   \* GameDataServer.state, written through to storage
    oracle,     \* the action-req handlers suspended in the retry loop
    moves,      \* number of operations applied to the match so far
    last        \* the operation applied to the match last, for the claims

vars == <<game, loaded, opened, c2s, s2c, srvState, oracle, moves, last>>

----------------------------------------------------------------------------
(* Bounds of the model *)

\* messages of the client that the server has not answered yet
MaxInFlight == 2
\* operations applied to one match: setup steps, plays, pickups, reveals,
\* resets, oracle actions and fallbacks
MaxMoves == 4
\* the user selects among the first PickWindow cards of the displayed hand
PickWindow == 3
\* the oracle's indexes are drawn from 0..MaxIndex
MaxIndex == 1
\* operations explored on the match stored with both visible reserves
LateMoves == 2
\* cards handed to a validator in one call
MaxCards == 4
\* cards on the stack a placement is tested against
MaxStack == 2
\* entries of the indexes array of an answer handed to the schema check
MaxIndexes == 2
\* ways the cards hidden from the computer are dealt again in a stored match
MaxRedeals == 2
\* choices explored in a match between two sides that place the lowest
MaxTurns == 150

(* Program constants *)
MAX_RETRIES == 5
DealSize == 9
ReserveSize == 3
MinHand == 3
Ace == 14
Two == 2

----------------------------------------------------------------------------
(* Cards *)

Ranks == 2..14
Suits == 0..3
Cards == {4 * r + s : r \in Ranks, s \in Suits}
Rank(c) == c \div 4
Suit(c) == c % 4

Null == [null |-> TRUE]

Min(a, b) == IF a < b THEN a ELSE b

Range(s) == {s[i] : i \in 1..Len(s)}

\* Array.prototype.filter on a sequence, by position
RECURSIVE FilterAt(_, _, _)
FilterAt(s, keep, i) ==
    IF i > Len(s) THEN <<>>
    ELSE (IF i \in keep THEN <<s[i]>> ELSE <<>>) \o FilterAt(s, keep, i + 1)

SelectAt(s, keep) == FilterAt(s, keep, 1)
RemoveAt(s, drop) == FilterAt(s, (1..Len(s)) \ drop, 1)

\* the key of a comparator: (a, b) => a.rank - b.rank, or rank and then suit
Key(c, byRank) == IF byRank THEN c \div 4 ELSE c

\* insertion of x into a sorted sequence, after the elements whose key is not
\* greater (Array.prototype.sort is stable)
RECURSIVE Insert(_, _, _)
Insert(x, s, byRank) ==
    IF s = <<>> THEN <<x>>
    ELSE IF Key(x, byRank) < Key(Head(s), byRank) THEN <<x>> \o s
    ELSE <<Head(s)>> \o Insert(x, Tail(s), byRank)

RECURSIVE Sort(_, _)
Sort(s, byRank) ==
    IF s = <<>> THEN <<>>
    ELSE Insert(s[Len(s)], Sort(SubSeq(s, 1, Len(s) - 1), byRank), byRank)

sortHand(hand) == Sort(hand, FALSE)
SortByRank(cards) == Sort(cards, TRUE)

RECURSIVE Flatten(_)
Flatten(placements) ==
    IF placements = <<>> THEN <<>>
    ELSE Head(placements).cards \o Flatten(Tail(placements))

----------------------------------------------------------------------------
(* Placement validator *)

MinRank(cards) == CHOOSE r \in {Rank(c) : c \in Range(cards)} :
                     \A c \in Range(cards) : r <= Rank(c)

IsStraight(cards) ==
    LET sorted == SortByRank(cards)
    IN  \A i \in 2..Len(sorted) : Rank(sorted[i]) = Rank(sorted[i - 1]) + 1

\* validatePlacement without the minimum length of a straight
validateLoose(cards) ==
    IF Len(cards) = 0 THEN Null
    ELSE IF Len(cards) = 1 THEN [cards |-> cards, type |-> "single"]
    ELSE IF \A i \in 1..Len(cards) : Rank(cards[i]) = Rank(cards[1])
         THEN [cards |-> cards, type |-> "multiple"]
    ELSE IF IsStraight(cards)
         THEN [cards |-> cards, type |-> "straight"]
    ELSE Null

validatePlacement(cards) ==
    IF Len(cards) = 0 THEN Null
    ELSE IF Len(cards) = 1 THEN [cards |-> cards, type |-> "single"]
    ELSE IF \A i \in 1..Len(cards) : Rank(cards[i]) = Rank(cards[1])
         THEN [cards |-> cards, type |-> "multiple"]
    ELSE IF Len(cards) >= 3 /\ IsStraight(cards)
         THEN [cards |-> cards, type |-> "straight"]
    ELSE Null

\* canPlayOnStack without the rule of the 2 and the Ace
canPlayByRankOnly(g, placement) ==
    IF Len(g.stack) = 0 THEN TRUE
    ELSE MinRank(placement.cards) >= Rank(g.stack[Len(g.stack)])

canPlayOnStack(g, placement) ==
    IF Len(g.stack) = 0 THEN TRUE
    ELSE LET topCard == g.stack[Len(g.stack)]
             lowest == MinRank(placement.cards)
         IN  IF lowest = Two \/ lowest = Ace THEN TRUE
             ELSE lowest >= Rank(topCard)

hasAce(placement) == \E c \in Range(placement.cards) : Rank(c) = Ace

----------------------------------------------------------------------------
(* The match held by the client.  g is the record of the CardGame fields;  *)
(* g.discard lists the cards whose containers discardStack has destroyed,  *)
(* g.out the messages the running handler has sent so far.                 *)

Hand(who) == IF who = "player" THEN "playerHand" ELSE "computerHand"
Visible(who) == IF who = "player" THEN "playerVisibleReserve"
                ELSE "computerVisibleReserve"
Hidden(who) == IF who = "player" THEN "playerHiddenReserve"
               ELSE "computerHiddenReserve"

EmptyGame ==
    [deck |-> <<>>, stack |-> <<>>,
     playerHand |-> <<>>, playerHiddenReserve |-> <<>>,
     playerVisibleReserve |-> <<>>,
     computerHand |-> <<>>, computerHiddenReserve |-> <<>>,
     computerVisibleReserve |-> <<>>,
     gamePhase |-> "selecting-hidden-reserve",
     discard |-> <<>>, out |-> <<>>]

getGameState(g) ==
    [deck |-> g.deck, stack |-> g.stack,
     playerHand |-> g.playerHand,
     playerHiddenReserve |-> g.playerHiddenReserve,
     playerVisibleReserve |-> g.playerVisibleReserve,
     computerHand |-> g.computerHand,
     computerHiddenReserve |-> g.computerHiddenReserve,
     computerVisibleReserve |-> g.computerVisibleReserve,
     gamePhase |-> g.gamePhase]

send(g, msg) == [g EXCEPT !.out = Append(@, msg)]

saveGameState(g) == send(g, [type |-> "state-update", state |-> getGameState(g)])

clearGameState(g) == send(g, [type |-> "state-clear"])

\* playOnStack without the sort of the placement's cards
pushAsSelected(g, placement) ==
    [g EXCEPT !.stack = @ \o placement.cards]

playOnStack(g, placement) ==
    [g EXCEPT !.stack = @ \o SortByRank(placement.cards)]

takeStack(g, who) ==
    LET taken == [g EXCEPT ![Hand(who)] = @ \o g.stack, !.stack = <<>>]
    IN  IF who = "player"
        THEN [taken EXCEPT !.playerHand = sortHand(@)]
        ELSE taken

discardStack(g) == [g EXCEPT !.discard = @ \o g.stack, !.stack = <<>>]

takeVisibleReserve(g, who) ==
    [g EXCEPT ![Hand(who)] = @ \o Flatten(g[Visible(who)]),
              ![Visible(who)] = <<>>]

\* the cards deck.pop() yields in n calls, in the order they are pushed
Popped(deck, n) == [i \in 1..n |-> deck[Len(deck) + 1 - i]]

drawToMinimum(g, who) ==
    LET hand == g[Hand(who)]
        n == IF Len(hand) < MinHand
             THEN Min(MinHand - Len(hand), Len(g.deck)) ELSE 0
        drawn == [g EXCEPT ![Hand(who)] = @ \o Popped(g.deck, n),
                           !.deck = SubSeq(@, 1, Len(@) - n)]
        taken == IF Len(drawn[Hand(who)]) = 0
                 THEN takeVisibleReserve(drawn, who) ELSE drawn
    IN  IF who = "player"
        THEN [taken EXCEPT !.playerHand = sortHand(@)]
        ELSE taken

HasNothing(g, who) ==
    /\ Len(g[Hand(who)]) = 0
    /\ Len(g[Visible(who)]) = 0
    /\ Len(g[Hidden(who)]) = 0

Wins(g) == HasNothing(g, "player") \/ HasNothing(g, "computer")

\* the side checkWinCondition names in the status line: the human's
\* containers are tested first
Declared(g) == IF HasNothing(g, "player") THEN "player" ELSE "computer"

\* checkWinCondition returns Wins(g) and leaves the match as follows
checkWinCondition(g) ==
    IF Wins(g) THEN clearGameState([g EXCEPT !.gamePhase = "game-over"])
    ELSE g

\* a start of the turn that hands it to the computer
startWithComputer(g) == [g EXCEPT !.gamePhase = "computer-turn"]

startPlayerTurn(g) == [g EXCEPT !.gamePhase = "player-turn"]

startComputerTurn(g) ==
    saveGameState(drawToMinimum([g EXCEPT !.gamePhase = "computer-turn"],
                                "computer"))

----------------------------------------------------------------------------
(* Setup *)

\* the shuffled decks a new match may start from
Shuffles ==
    { <<44, 57, 35,  9, 42, 38, 12, 15, 13, 54, 37, 26, 43,
        31, 33, 52, 45, 29, 17, 47, 48, 16, 19, 18, 46, 22,
        36, 40, 28, 25, 39, 30, 20,  8, 56, 51, 23, 41, 21,
        10, 55, 14, 11, 53, 32, 49, 34, 59, 50, 27, 58, 24 >> }

\* initializeDeck pushes the 52 cards onto this.deck and shuffles it
initializeDeck(g, shuffled) == [g EXCEPT !.deck = @ \o shuffled]

RECURSIVE Deal(_, _)
Deal(g, n) ==
    IF n = 0 THEN g
    ELSE LET d == g.deck
         IN  Deal([g EXCEPT !.playerHand = Append(@, d[Len(d)]),
                            !.computerHand = Append(@, d[Len(d) - 1]),
                            !.deck = SubSeq(d, 1, Len(d) - 2)], n - 1)

dealInitialCards(g) ==
    [Deal(g, DealSize) EXCEPT !.playerHand = sortHand(@)]

\* the computer's hidden reserve: ReserveSize cards popped off its hand
RECURSIVE PopToHidden(_, _)
PopToHidden(g, n) ==
    IF n = 0 THEN g
    ELSE LET h == g.computerHand
         IN  PopToHidden([g EXCEPT !.computerHiddenReserve = Append(@, h[Len(h)]),
                                   !.computerHand = SubSeq(h, 1, Len(h) - 1)],
                         n - 1)

startNewGame(g, shuffled) ==
    PopToHidden(dealInitialCards(initializeDeck(g, shuffled)), ReserveSize)

RECURSIVE MakeVisible(_, _)
MakeVisible(g, n) ==
    IF n = 0 \/ Len(g.computerHand) = 0 THEN g
    ELSE LET h == g.computerHand
             placed == [g EXCEPT
                 !.computerVisibleReserve =
                     Append(@, [cards |-> <<h[Len(h)]>>, type |-> "single"]),
                 !.computerHand = SubSeq(h, 1, Len(h) - 1)]
         IN  MakeVisible(drawToMinimum(placed, "computer"), n - 1)

computerMakesVisibleReserve(g) == MakeVisible(g, ReserveSize)

\* S is the set of positions of the cards of the hand the user has selected
completeHiddenReserveSelection(g, S) ==
    LET selected == SelectAt(g.playerHand, S)
    IN  IF Len(selected) # ReserveSize THEN g
        ELSE LET moved == [g EXCEPT !.playerHiddenReserve = selected,
                                    !.playerHand = RemoveAt(@, S)]
                 made == computerMakesVisibleReserve(moved)
             IN  saveGameState(
                     [made EXCEPT !.gamePhase = "selecting-visible-reserve"])

completeVisibleReservePlacement(g, S) ==
    LET selected == SelectAt(g.playerHand, S)
        placement == validatePlacement(selected)
    IN  IF placement = Null \/ Len(g.playerVisibleReserve) >= ReserveSize
        THEN g
        ELSE LET placed == [g EXCEPT !.playerVisibleReserve = Append(@, placement),
                                     !.playerHand = RemoveAt(@, S)]
                 drawn == drawToMinimum(placed, "player")
             IN  saveGameState(
                     IF Len(drawn.playerVisibleReserve) = ReserveSize
                     THEN startPlayerTurn(drawn) ELSE drawn)

----------------------------------------------------------------------------
(* Turns *)

\* playSelectedCards without the test of canPlayOnStack
playUnchecked(g, S) ==
    LET selected == SelectAt(g.playerHand, S)
        placement == validatePlacement(selected)
    IN  IF placement = Null THEN g
        ELSE LET played == [playOnStack(g, placement) EXCEPT
                                !.playerHand = RemoveAt(@, S)]
                 drawn == drawToMinimum(played, "player")
             IN  IF hasAce(placement)
                 THEN saveGameState(discardStack(drawn))
                 ELSE IF Wins(drawn) THEN checkWinCondition(drawn)
                 ELSE startComputerTurn(drawn)

playSelectedCards(g, S) ==
    LET selected == SelectAt(g.playerHand, S)
        placement == validatePlacement(selected)
    IN  IF placement = Null THEN g
        ELSE IF ~canPlayOnStack(g, placement) THEN g
        ELSE LET played == [playOnStack(g, placement) EXCEPT
                                !.playerHand = RemoveAt(@, S)]
                 drawn == drawToMinimum(played, "player")
             IN  IF hasAce(placement)
                 THEN saveGameState(discardStack(drawn))
                 ELSE IF Wins(drawn) THEN checkWinCondition(drawn)
                 ELSE startComputerTurn(drawn)

\* handleCardClick on the top card of the stack
clickStack(g) == startComputerTurn(takeStack(g, "player"))

CanDrawHidden(g) ==
    /\ Len(g.playerHand) = 0
    /\ Len(g.deck) = 0
    /\ Len(g.playerVisibleReserve) = 0

\* handleCardClick on the card at position i of the user's hidden reserve
clickHidden(g, i) ==
    IF ~CanDrawHidden(g) THEN g
    ELSE saveGameState(
             [g EXCEPT !.playerHand = Append(@, g.playerHiddenReserve[i]),
                       !.playerHiddenReserve = RemoveAt(@, {i})])

\* a Play button that plays the selection whatever the phase
playInAnyPhase(g, S) == playSelectedCards(g, S)

\* the Play button, with the cards at the positions S of the hand selected
handlePlayButton(g, S) ==
    IF g.gamePhase = "selecting-hidden-reserve"
    THEN completeHiddenReserveSelection(g, S)
    ELSE IF g.gamePhase = "selecting-visible-reserve"
    THEN completeVisibleReservePlacement(g, S)
    ELSE IF g.gamePhase = "player-turn"
    THEN playSelectedCards(g, S)
    ELSE g

\* the position of a card in a sequence that holds it
PositionOf(card, s) == CHOOSE i \in 1..Len(s) : s[i] = card

\* a click on a card: on a card of the hand it only toggles the selection
handleCardClick(g, card) ==
    IF card \in Range(g.playerHand) THEN g
    ELSE IF g.gamePhase = "player-turn"
    THEN IF Len(g.stack) > 0 /\ card = g.stack[Len(g.stack)]
         THEN clickStack(g)
         ELSE IF CanDrawHidden(g) /\ card \in Range(g.playerHiddenReserve)
         THEN clickHidden(g, PositionOf(card, g.playerHiddenReserve))
         ELSE g
    ELSE g

\* the positions of the hand that action.indexes names
IndexedPositions(hand, indexes) ==
    {i \in 1..Len(hand) : \E k \in 1..Len(indexes) : indexes[k] = i - 1}

\* the end of computerTurn, after the switch
endComputerTurn(g) ==
    IF Wins(g) THEN checkWinCondition(g)
    ELSE saveGameState(startPlayerTurn(g))

computerPlay(g, action) ==
    LET S == IndexedPositions(g.computerHand, action.indexes)
        selectedCards == SelectAt(g.computerHand, S)
        removed == [g EXCEPT !.computerHand = RemoveAt(@, S)]
        placement == validatePlacement(selectedCards)
    IN  IF placement = Null
        THEN removed    \* placement.cards throws: the handler stops here
        ELSE LET played == playOnStack(removed, placement)
             IN  IF hasAce(placement)
                 THEN saveGameState(drawToMinimum(discardStack(played), "computer"))
                 ELSE endComputerTurn(drawToMinimum(played, "computer"))

computerStack(g) == endComputerTurn(takeStack(g, "computer"))

computerHidden(g, action) ==
    LET hiddenIndex == IF Len(action.indexes) > 0 THEN action.indexes[1] ELSE 0
    IN  IF hiddenIndex >= Len(g.computerHiddenReserve) THEN endComputerTurn(g)
        ELSE LET card == g.computerHiddenReserve[hiddenIndex + 1]
                 spliced == [g EXCEPT !.computerHiddenReserve =
                                          RemoveAt(@, {hiddenIndex + 1})]
                 placement == [cards |-> <<card>>, type |-> "single"]
             IN  IF canPlayOnStack(spliced, placement)
                 THEN LET played == playOnStack(spliced, placement)
                      IN  IF Rank(card) = Ace
                          THEN saveGameState(discardStack(played))
                          ELSE endComputerTurn(played)
                 ELSE endComputerTurn(
                          takeStack([spliced EXCEPT !.computerHand = Append(@, card)],
                                    "computer"))

computerTurn(g, action) ==
    IF action.action = "play" THEN computerPlay(g, action)
    ELSE IF action.action = "stack" THEN computerStack(g)
    ELSE IF action.action = "hidden" THEN computerHidden(g, action)
    ELSE endComputerTurn(g)

\* handleSocketMessage, case action-error
actionError(g) == saveGameState(startPlayerTurn(takeStack(g, "computer")))

loadGameState(g, state) ==
    LET restored == [g EXCEPT
            !.deck = state.deck, !.stack = state.stack,
            !.playerHand = state.playerHand,
            !.playerHiddenReserve = state.playerHiddenReserve,
            !.playerVisibleReserve = state.playerVisibleReserve,
            !.computerHand = state.computerHand,
            !.computerHiddenReserve = state.computerHiddenReserve,
            !.computerVisibleReserve = state.computerVisibleReserve,
            !.gamePhase = state.gamePhase]
    IN  IF restored.gamePhase = "computer-turn"
        THEN startComputerTurn(restored) ELSE restored

\* resetGame empties the arrays and leaves gamePhase as it is
resetGame(g, shuffled) ==
    LET cleared == [g EXCEPT
            !.deck = <<>>, !.stack = <<>>,
            !.playerHand = <<>>, !.playerHiddenReserve = <<>>,
            !.playerVisibleReserve = <<>>,
            !.computerHand = <<>>, !.computerHiddenReserve = <<>>,
            !.computerVisibleReserve = <<>>,
            !.discard = <<>>]
    IN  startNewGame(clearGameState(cleared), shuffled)

----------------------------------------------------------------------------
(* The decision oracle's answers and their validation on the server *)

\* a JSON value as far as validateResponseSchema inspects it
Json(shape, extraKeys, action, why, indexes) ==
    [shape |-> shape, extraKeys |-> extraKeys, action |-> action,
     why |-> why, indexes |-> indexes]

Absent == [present |-> FALSE, ok |-> FALSE, value |-> "", items |-> <<>>]
Str(v) == [present |-> TRUE, ok |-> TRUE, value |-> v, items |-> <<>>]
NonStr == [present |-> TRUE, ok |-> FALSE, value |-> "", items |-> <<>>]
\* a JSON number is value + half / 2: typeof tells 1 and 1.5 apart from "1",
\* not from each other
Num(n) == [isNumber |-> TRUE, value |-> n, half |-> 0]
Half(n) == [isNumber |-> TRUE, value |-> n, half |-> 1]
NotNum == [isNumber |-> FALSE, value |-> 0, half |-> 0]
Arr(items) == [present |-> TRUE, ok |-> TRUE, value |-> "", items |-> items]
NonArr == [present |-> TRUE, ok |-> FALSE, value |-> "", items |-> <<>>]

validActions == {"play", "stack", "hidden"}

\* the error validateResponseSchema returns, "null" when it returns null
validateResponseSchema(response) ==
    IF response.shape # "object" THEN "Response must be an object"
    ELSE IF response.extraKeys THEN "Unexpected property"
    ELSE IF ~response.action.present THEN "Missing required property: action"
    ELSE IF ~response.action.ok THEN "Property 'action' must be a string"
    ELSE IF response.action.value \notin validActions
         THEN "Property 'action' must be one of"
    ELSE IF ~response.why.present
         THEN "Missing required property: whyMoveIsValid"
    ELSE IF ~response.why.ok THEN "Property 'whyMoveIsValid' must be a string"
    ELSE IF response.indexes.present /\ ~response.indexes.ok
         THEN "Property 'indexes' must be an array"
    ELSE IF /\ response.indexes.present
            /\ \E i \in 1..Len(response.indexes.items) :
                   ~response.indexes.items[i].isNumber
         THEN "Property 'indexes[i]' must be a number"
    ELSE IF /\ response.action.value = "play"
            /\ (~response.indexes.present \/ Len(response.indexes.items) = 0)
         THEN "Action 'play' requires non-empty 'indexes' array"
    ELSE IF /\ response.action.value = "hidden"
            /\ (~response.indexes.present \/ Len(response.indexes.items) # 1)
         THEN "Action 'hidden' requires 'indexes' array with exactly one element"
    ELSE "null"

\* GameDataServer.validatePlacement: "valid" or the reason
srvValidatePlacement(cards) ==
    IF Len(cards) = 0 THEN "it is empty"
    ELSE IF Len(cards) = 1 THEN "valid"
    ELSE IF \A i \in 1..Len(cards) : Rank(cards[i]) = Rank(cards[1]) THEN "valid"
    ELSE IF Len(cards) >= 3 /\ IsStraight(cards) THEN "valid"
    ELSE "is not a straight or multiple of a kind"

\* the numbers of parsedResponse.indexes
Indexes(response) ==
    [k \in 1..Len(response.indexes.items) |-> response.indexes.items[k].value]

\* this.state?.computerHand ?? []
StateHand(state) == IF state = Null THEN <<>> ELSE state.computerHand

\* the semantic check of a schema-valid answer against this.state
SemanticallyLegal(state, response) ==
    IF response.action.value = "play"
    THEN LET hand == StateHand(state)
         IN  srvValidatePlacement(
                 SelectAt(hand, IndexedPositions(hand, Indexes(response))))
             = "valid"
    ELSE IF response.action.value = "hidden"
    THEN ~(Len(StateHand(state)) > 0)
    ELSE TRUE

\* the body of the loop without the break on success
OracleStepNoBreak(h, answer, state) ==
    [attempts |-> h.attempts + 1,
     parsedResponse |-> IF answer.kind # "json" THEN h.parsedResponse
                        ELSE IF validateResponseSchema(answer.value) # "null"
                        THEN Null ELSE answer.value,
     done |-> FALSE]

\* one pass of the body of the retry loop: h is the suspended handler, answer
\* what this.env.AI.run produced
OracleStep(h, answer, state) ==
    LET n == h.attempts + 1
    IN  IF answer.kind # "json"
        THEN [attempts |-> n, parsedResponse |-> h.parsedResponse, done |-> FALSE]
        ELSE IF validateResponseSchema(answer.value) # "null"
        THEN [attempts |-> n, parsedResponse |-> Null, done |-> FALSE]
        ELSE [attempts |-> n, parsedResponse |-> answer.value,
              done |-> SemanticallyLegal(state, answer.value)]

\* a loop that is left by the break on success only
EndsOnSuccess(h) == h.done

\* the loop is left: by the break on success or by its exhausted condition
LoopEnds(h) == h.done \/ h.attempts = MAX_RETRIES

\* the reply of a server that reports every request as failed
OracleReplyError(parsedResponse) == [type |-> "action-error"]

\* the message sent after the loop
OracleReply(parsedResponse) ==
    IF parsedResponse = Null THEN [type |-> "action-error"]
    ELSE [type |-> "action-res", action |-> parsedResponse]

\* the Action the client reads out of an action-res message
ActionOf(response) ==
    [action |-> response.action.value, indexes |-> Indexes(response)]

NoJson == Json("null", FALSE, Absent, Absent, Absent)

\* the index arrays the oracle answers with: the increasing ones over 0..MaxIndex
RECURSIVE Increasing(_, _)
Increasing(S, from) ==
    IF from > MaxIndex THEN <<>>
    ELSE (IF from \in S THEN <<Num(from)>> ELSE <<>>) \o Increasing(S, from + 1)

IndexArrays == {Increasing(S, 0) : S \in SUBSET (0..MaxIndex)}

OracleAnswers ==
    {[kind |-> k, value |-> NoJson] : k \in {"throw", "empty", "badjson"}}
    \cup {[kind |-> "json", value |-> v] : v \in
            {NoJson,
             Json("object", TRUE, Str("stack"), Str("why"), Absent),
             Json("object", FALSE, Str("pass"), Str("why"), Absent),
             Json("object", FALSE, Str("play"), Str("why"), Absent),
             Json("object", FALSE, Str("stack"), Str("why"), Absent)}
            \cup {Json("object", FALSE, Str("play"), Str("why"), Arr(a)) :
                    a \in IndexArrays}
            \cup {Json("object", FALSE, Str("hidden"), Str("why"), Arr(a)) :
                    a \in IndexArrays}}

----------------------------------------------------------------------------
(* The state machine *)

Stored(deck, stack, pHand, pHidden, cHand, cHidden, gamePhase) ==
    [deck |-> deck, stack |-> stack,
     playerHand |-> pHand,
     playerHiddenReserve |-> pHidden,
     playerVisibleReserve |-> <<>>,
     computerHand |-> cHand,
     computerHiddenReserve |-> cHidden,
     computerVisibleReserve |-> <<>>,
     gamePhase |-> gamePhase]

\* The matches found in storage when the client connects: states that
\* saveGameState has stored late in a match dealt from the deck of Shuffles
\* (the user hides the three highest cards, reserves the three lowest one by
\* one, and both sides play every card of their lowest legal rank).
AtHiddenReveal ==
    Stored(<<>>, <<11, 25, 26, 32, 52, 54, 55, 10>>, <<14, 24>>, <<51, 53, 59>>,
           <<>>, <<56, 23, 21>>, "computer-turn")
AtLastCard ==
    Stored(<<>>, <<14, 21, 23>>, <<>>, <<51, 53, 59>>,
           <<24>>, <<>>, "player-turn")
AfterPickup ==
    Stored(<<>>, <<>>, <<>>, <<53, 59>>,
           <<24, 14, 21, 23, 51>>, <<>>, "player-turn")

LastHidden ==
    Stored(<<>>, <<>>, <<>>, <<59>>,
           <<24, 14, 21, 23, 51, 53>>, <<>>, "player-turn")

\* the visible reserve of three one-card placements
Singles(cards) == [i \in 1..Len(cards) |-> [cards |-> <<cards[i]>>, type |-> "single"]]

\* the same match as completeHiddenReserveSelection saves it ...
AfterHiding ==
    [Stored(SubSeq(CHOOSE d \in Shuffles : TRUE, 1, 34), <<>>,
            <<10, 14, 24, 27, 41, 49>>, <<51, 53, 59>>,
            <<58, 50, 34>>, <<56, 23, 21>>, "selecting-visible-reserve")
        EXCEPT !.computerVisibleReserve = Singles(<<55, 11, 32>>)]

\* ... as startComputerTurn saves it after the user's first placement ...
FirstTurn ==
    [Stored(SubSeq(CHOOSE d \in Shuffles : TRUE, 1, 33), <<27>>,
            <<8, 41, 49>>, <<51, 53, 59>>,
            <<58, 50, 34>>, <<56, 23, 21>>, "computer-turn")
        EXCEPT !.playerVisibleReserve = Singles(<<10, 14, 24>>),
               !.computerVisibleReserve = Singles(<<55, 11, 32>>)]

\* ... and as startComputerTurn saves it once the deck is exhausted
WithReserves ==
    [Stored(<<>>, <<13, 15, 12, 16, 17, 18, 19, 31, 28, 29, 33, 43, 40, 42, 45,
                    46, 47, 9, 22, 35, 36, 37, 38>>,
            <<25, 26, 48, 52, 54>>, <<51, 53, 59>>,
            <<57, 44>>, <<56, 23, 21>>, "computer-turn")
        EXCEPT !.playerVisibleReserve = Singles(<<10, 14, 24>>),
               !.computerVisibleReserve = Singles(<<55, 11, 32>>)]

Snapshots ==
    {AfterHiding, FirstTurn, WithReserves, AtHiddenReveal, AtLastCard,
     AfterPickup, LastHidden}

\* the stored matches explored for LateMoves operations only
Late == {FirstTurn, WithReserves}

Phases == {"selecting-hidden-reserve", "selecting-visible-reserve",
           "player-turn", "computer-turn", "game-over"}

\* the operation on the match applied last: what it was, who acted, the phase
\* it was applied in, the cards it placed or took and whether canPlayOnStack
\* allowed the placement; n alternates with every operation
Op(op, by, pre, cards) ==
    [op |-> op, by |-> by, pre |-> pre, cards |-> cards, legal |-> TRUE,
     n |-> 0]
NoOp == Op("none", "none", "none", <<>>)

Init ==
    /\ game = EmptyGame
    /\ loaded = FALSE
    /\ opened = FALSE
    /\ c2s = <<>>
    /\ s2c = <<>>
    /\ srvState \in {Null} \cup Snapshots
    /\ oracle = <<>>
    /\ moves = IF srvState \in Late THEN MaxMoves - LateMoves ELSE 0
    /\ last = NoOp

\* the messages of the client that wait for the server or for their answer
Outstanding == Len(c2s) + Len(oracle) + Len(s2c)

\* the handler has run to g: its messages leave on the socket if it is open
Commit(g) ==
    /\ game' = [g EXCEPT !.out = <<>>]
    /\ c2s' = IF opened THEN c2s \o g.out ELSE c2s

\* a handler of the user's input runs while the socket has room
UserCommit(g) ==
    /\ Outstanding + Len(g.out) <= MaxInFlight
    /\ Commit(g)

\* an operation on the match is explored while the budget lasts
Budget ==
    /\ moves < MaxMoves
    /\ moves' = moves + 1

Applies(op) == last' = [op EXCEPT !.n = 1 - last.n]

\* the positions of the hand the user can have selected
Selections == SUBSET (1..Min(PickWindow, Len(game.playerHand)))

\* the cards of Cards that are in none of the containers of a stored match
RECURSIVE Listed(_, _)
Listed(S, from) ==
    IF from > 4 * Ace + 3 THEN <<>>
    ELSE (IF from \in S THEN <<from>> ELSE <<>>) \o Listed(S, from + 1)

Held(state) ==
    Range(state.deck) \cup Range(state.stack)
    \cup Range(state.playerHand) \cup Range(state.playerHiddenReserve)
    \cup Range(Flatten(state.playerVisibleReserve))
    \cup Range(state.computerHand) \cup Range(state.computerHiddenReserve)
    \cup Range(Flatten(state.computerVisibleReserve))

HandleSocketOpen ==
    /\ ~opened
    /\ opened' = TRUE
    /\ c2s' = Append(c2s, [type |-> "state-get"])
    /\ UNCHANGED <<game, loaded, s2c, srvState, oracle, moves, last>>

(* The user *)

ConfirmHiddenReserve ==
    /\ game.gamePhase = "selecting-hidden-reserve"
    /\ Budget
    /\ \E S \in Selections :
          /\ Cardinality(S) = ReserveSize
          /\ UserCommit(completeHiddenReserveSelection(game, S))
    /\ Applies(Op("setup", "player", game.gamePhase, <<>>))
    /\ UNCHANGED <<loaded, opened, s2c, srvState, oracle>>

ConfirmVisiblePlacement ==
    /\ game.gamePhase = "selecting-visible-reserve"
    /\ Budget
    /\ \E S \in Selections :
          /\ validatePlacement(SelectAt(game.playerHand, S)) # Null
          /\ Len(game.playerVisibleReserve) < ReserveSize
          /\ UserCommit(completeVisibleReservePlacement(game, S))
    /\ Applies(Op("setup", "player", game.gamePhase, <<>>))
    /\ UNCHANGED <<loaded, opened, s2c, srvState, oracle>>

PlayCards ==
    /\ game.gamePhase = "player-turn"
    /\ Budget
    /\ \E S \in Selections :
          LET placement == validatePlacement(SelectAt(game.playerHand, S))
          IN  /\ placement # Null
              /\ canPlayOnStack(game, placement)
              /\ UserCommit(playSelectedCards(game, S))
              /\ Applies(Op("placement", "player", game.gamePhase,
                            placement.cards))
    /\ UNCHANGED <<loaded, opened, s2c, srvState, oracle>>

ClickStack ==
    /\ game.gamePhase = "player-turn"
    /\ Len(game.stack) > 0
    /\ Budget
    /\ UserCommit(clickStack(game))
    /\ Applies(Op("take", "player", game.gamePhase, game.stack))
    /\ UNCHANGED <<loaded, opened, s2c, srvState, oracle>>

ClickHidden ==
    /\ game.gamePhase = "player-turn"
    /\ CanDrawHidden(game)
    /\ Budget
    /\ \E i \in 1..Len(game.playerHiddenReserve) : UserCommit(clickHidden(game, i))
    /\ Applies(Op("reveal", "player", game.gamePhase, <<>>))
    /\ UNCHANGED <<loaded, opened, s2c, srvState, oracle>>

\* the user confirms the reset of the match on the table
ResetGame ==
    /\ loaded
    /\ Budget
    /\ \E d \in Shuffles : UserCommit(resetGame(game, d))
    /\ Applies(Op("reset", "player", game.gamePhase, <<>>))
    /\ UNCHANGED <<loaded, opened, s2c, srvState, oracle>>

(* The client's message handler *)

Receive(type) ==
    /\ Len(s2c) > 0
    /\ Head(s2c).type = type
    /\ s2c' = Tail(s2c)

HandleStateLoad ==
    /\ Receive("state-load")
    /\ LET state == Head(s2c).state
       IN  Commit([loadGameState(game, state) EXCEPT
                      !.discard = Listed(Cards \ Held(state), 4 * Two)])
    /\ loaded' = TRUE
    /\ Applies(Op("load", "none", game.gamePhase, <<>>))
    /\ UNCHANGED <<opened, srvState, oracle, moves>>

HandleStateNone ==
    /\ Receive("state-none")
    /\ \E d \in Shuffles : Commit(startNewGame(game, d))
    /\ loaded' = TRUE
    /\ Applies(Op("new", "none", game.gamePhase, <<>>))
    /\ UNCHANGED <<opened, srvState, oracle, moves>>

HandleStateSaved ==
    /\ Receive("state-saved")
    /\ Commit(IF game.gamePhase = "computer-turn"
              THEN send(game, [type |-> "action-req"]) ELSE game)
    /\ UNCHANGED <<loaded, opened, srvState, oracle, moves, last>>

HandleStateCleared ==
    /\ Receive("state-cleared")
    /\ UNCHANGED <<game, loaded, opened, c2s, srvState, oracle, moves, last>>

\* hiddenIndex of computerTurn, case hidden
HiddenIndex(action) ==
    IF Len(action.indexes) > 0 THEN action.indexes[1] ELSE 0

\* what computerTurn does with the action, for the claims
Applied(g, action) ==
    IF action.action = "play"
    THEN LET cards == SelectAt(g.computerHand,
                               IndexedPositions(g.computerHand, action.indexes))
         IN  IF validatePlacement(cards) = Null
             THEN Op("throw", "computer", g.gamePhase, <<>>)
             ELSE [Op("placement", "computer", g.gamePhase, cards) EXCEPT
                     !.legal = canPlayOnStack(g, validatePlacement(cards))]
    ELSE IF action.action = "stack"
    THEN Op("take", "computer", g.gamePhase, g.stack)
    ELSE IF HiddenIndex(action) >= Len(g.computerHiddenReserve)
    THEN Op("pass", "computer", g.gamePhase, <<>>)
    ELSE LET card == g.computerHiddenReserve[HiddenIndex(action) + 1]
         IN  IF canPlayOnStack(g, [cards |-> <<card>>, type |-> "single"])
             THEN Op("hidden-placement", "computer", g.gamePhase, <<card>>)
             ELSE Op("hidden-take", "computer", g.gamePhase, <<>>)

HandleActionRes ==
    /\ Receive("action-res")
    /\ Budget
    /\ LET action == ActionOf(Head(s2c).action)
       IN  /\ Commit(computerTurn(game, action))
           /\ Applies(Applied(game, action))
    /\ UNCHANGED <<loaded, opened, srvState, oracle>>

HandleActionError ==
    /\ Receive("action-error")
    /\ Budget
    /\ Commit(actionError(game))
    /\ Applies(Op("fallback", "computer", game.gamePhase, <<>>))
    /\ UNCHANGED <<loaded, opened, srvState, oracle>>

(* The server *)

Handle(type) ==
    /\ Len(c2s) > 0
    /\ Head(c2s).type = type
    /\ c2s' = Tail(c2s)

Reply(msg) == s2c' = Append(s2c, msg)

ServeStateGet ==
    /\ Handle("state-get")
    /\ Reply(IF srvState # Null THEN [type |-> "state-load", state |-> srvState]
             ELSE [type |-> "state-none"])
    /\ UNCHANGED <<game, loaded, opened, srvState, oracle, moves, last>>

ServeStateUpdate ==
    /\ Handle("state-update")
    /\ srvState' = Head(c2s).state
    /\ Reply([type |-> "state-saved"])
    /\ UNCHANGED <<game, loaded, opened, oracle, moves, last>>

ServeStateClear ==
    /\ Handle("state-clear")
    /\ srvState' = Null
    /\ Reply([type |-> "state-cleared"])
    /\ UNCHANGED <<game, loaded, opened, oracle, moves, last>>

\* action-req: the handler runs up to its first await of AI.run
ServeActionReq ==
    /\ Handle("action-req")
    /\ oracle' = Append(oracle, [attempts |-> 0, parsedResponse |-> Null])
    /\ UNCHANGED <<game, loaded, opened, s2c, srvState, moves, last>>

\* AI.run of handler i settles: the body of the loop runs to the next await,
\* or the loop ends and the reply is sent
OracleAttemptOf(answers) ==
    \E i \in 1..Len(oracle), answer \in answers :
       LET h == OracleStep(oracle[i], answer, srvState)
       IN  /\ oracle[i].attempts < MAX_RETRIES
           /\ IF LoopEnds(h)
              THEN /\ Reply(OracleReply(h.parsedResponse))
                   /\ oracle' = RemoveAt(oracle, {i})
              ELSE /\ oracle' = [oracle EXCEPT ![i] =
                          [attempts |-> h.attempts,
                           parsedResponse |-> h.parsedResponse]]
                   /\ s2c' = s2c
           /\ UNCHANGED <<game, loaded, opened, c2s, srvState, moves, last>>

OracleAttempt == OracleAttemptOf(OracleAnswers)

\* the cards the user can point at: their own, and the top of the stack
Reachable(g) ==
    Range(g.playerHand) \cup Range(g.playerHiddenReserve)
    \cup {g.stack[i] : i \in {Len(g.stack)} \ {0}}

\* the user clicks a card or the Play button while it is not their turn
ClickOutOfTurn ==
    /\ game.gamePhase \in {"computer-turn", "game-over"}
    /\ \/ \E S \in Selections : UserCommit(handlePlayButton(game, S))
       \/ \E card \in Reachable(game) : UserCommit(handleCardClick(game, card))
    /\ UNCHANGED <<loaded, opened, s2c, srvState, oracle, moves, last>>

Next ==
    \/ ClickOutOfTurn
    \/ HandleSocketOpen
    \/ ConfirmHiddenReserve
    \/ ConfirmVisiblePlacement
    \/ PlayCards
    \/ ClickStack
    \/ ClickHidden
    \/ ResetGame
    \/ HandleStateLoad
    \/ HandleStateNone
    \/ HandleStateSaved
    \/ HandleStateCleared
    \/ HandleActionRes
    \/ HandleActionError
    \/ ServeStateGet
    \/ ServeStateUpdate
    \/ ServeStateClear
    \/ ServeActionReq
    \/ OracleAttempt

Spec == Init /\ [][Next]_vars

----------------------------------------------------------------------------
(* A full match between two sides that place the lowest they can.  The     *)
(* exchange of messages is left out: every action of the computer is the  *)
(* answer of the oracle as the client applies it in computerTurn.         *)

\* what the running handler has sent is of no account in this match
Sent(g) == [g EXCEPT !.out = <<>>]

\* the positions of the cards of the lowest rank of hand that is legal on the
\* stack, none if no card is
LowestLegal(g, hand) ==
    LET ok == {i \in 1..Len(hand) :
                 canPlayOnStack(g, [cards |-> <<hand[i]>>, type |-> "single"])}
    IN  IF ok = {} THEN {}
        ELSE LET i == CHOOSE i \in ok : \A j \in ok : hand[i] <= hand[j]
             IN  {j \in 1..Len(hand) : Rank(hand[j]) = Rank(hand[i])}

\* action.indexes for the positions S of the hand
ZeroBased(S) ==
    [k \in 1..Cardinality(S) |->
        (CHOOSE x \in S : Cardinality({y \in S : y < x}) = k - 1) - 1]

MatchInit ==
    /\ \E d \in Shuffles : game = startNewGame(EmptyGame, d)
    /\ loaded = TRUE
    /\ opened = TRUE
    /\ c2s = <<>>
    /\ s2c = <<>>
    /\ srvState = Null
    /\ oracle = <<>>
    /\ moves = 0
    /\ last = NoOp

\* a choice of the match is made while the turns explored last
Turn ==
    /\ moves < MaxTurns
    /\ moves' = moves + 1

\* the user hides any three cards of the hand
MatchHidden ==
    /\ game.gamePhase = "selecting-hidden-reserve"
    /\ \E S \in SUBSET (1..Len(game.playerHand)) :
          /\ Cardinality(S) = ReserveSize
          /\ game' = Sent(completeHiddenReserveSelection(game, S))
    /\ Turn
    /\ UNCHANGED <<loaded, opened, c2s, s2c, srvState, oracle, last>>

\* the user reserves the lowest card of the hand
MatchVisible ==
    /\ game.gamePhase = "selecting-visible-reserve"
    /\ game' = Sent(completeVisibleReservePlacement(game, {1}))
    /\ Turn
    /\ UNCHANGED <<loaded, opened, c2s, s2c, srvState, oracle, last>>

\* the user reveals a hidden card when nothing else is left, plays the lowest
\* legal rank of the hand, and clicks the stack when no card is legal
MatchHuman ==
    /\ game.gamePhase = "player-turn"
    /\ LET S == LowestLegal(game, game.playerHand)
       IN  IF CanDrawHidden(game) /\ Len(game.playerHiddenReserve) > 0
           THEN \E i \in 1..Len(game.playerHiddenReserve) :
                   game' = Sent(clickHidden(game, i))
           ELSE IF S # {}
           THEN game' = Sent(playSelectedCards(game, S))
           ELSE /\ Len(game.stack) > 0
                /\ game' = Sent(clickStack(game))
    /\ Turn
    /\ UNCHANGED <<loaded, opened, c2s, s2c, srvState, oracle, last>>

\* the oracle answers hidden while the computer holds no card and has hidden
\* ones, play with the lowest legal rank of the hand, and stack otherwise
MatchComputer ==
    /\ game.gamePhase = "computer-turn"
    /\ LET S == LowestLegal(game, game.computerHand)
       IN  IF Len(game.computerHand) = 0 /\ Len(game.computerHiddenReserve) > 0
           THEN \E i \in 1..Len(game.computerHiddenReserve) :
                   game' = Sent(computerTurn(game, [action |-> "hidden",
                                                    indexes |-> <<i - 1>>]))
           ELSE IF S # {}
           THEN game' = Sent(computerTurn(game, [action |-> "play",
                                                 indexes |-> ZeroBased(S)]))
           ELSE game' = Sent(computerTurn(game, [action |-> "stack",
                                                 indexes |-> <<>>]))
    /\ Turn
    /\ UNCHANGED <<loaded, opened, c2s, s2c, srvState, oracle, last>>

MatchNext ==
    \/ MatchHidden
    \/ MatchVisible
    \/ MatchHuman
    \/ MatchComputer

MatchSpec == MatchInit /\ [][MatchNext]_vars

----------------------------------------------------------------------------
(* The validators by themselves: each is called once on an argument drawn  *)
(* from a bounded set, and the call and what it returned are kept in last. *)

\* one card of every rank and two more sevens
SampleCards == {4 * r : r \in Ranks} \cup {4 * 7 + 1, 4 * 7 + 2}

\* the arrays of at most n different cards of SampleCards, in every order
CardArrays(n) ==
    {s \in UNION {[1..k -> SampleCards] : k \in 0..n} :
        \A i, j \in DOMAIN s : i # j => s[i] # s[j]}

Call(fn, args) == [op |-> "call", by |-> fn, args |-> args]

Return(result) ==
    /\ last' = [op |-> "return", by |-> last.by, args |-> last.args,
                result |-> result]
    /\ UNCHANGED <<game, loaded, opened, c2s, s2c, srvState, oracle, moves>>

\* the arrays of cards handed to validatePlacement, the placements it
\* returns for them, and the stacks these are tested against
Arrays == CardArrays(MaxCards)
Placements == {validatePlacement(c) : c \in Arrays} \ {Null}
Stacks == CardArrays(MaxStack)

\* the values JSON.parse hands to validateResponseSchema
IndexValues == {Num(0), Num(1), Half(0), NotNum}
Responses ==
    {Json(shape, extraKeys, action, why, indexes) :
        shape \in {"object", "array", "null", "string"},
        extraKeys \in BOOLEAN,
        action \in {Absent, NonStr, Str("play"), Str("stack"), Str("hidden"),
                    Str("pass")},
        why \in {Absent, NonStr, Str("why")},
        indexes \in {Absent, NonArr} \cup
                    {Arr(a) : a \in UNION {[1..k -> IndexValues] :
                                              k \in 0..MaxIndexes}}}

\* the calls made
Called ==
    \/ \E r \in Responses :
          last = Call("validateResponseSchema", [response |-> r])
    \/ \E c \in Arrays : last = Call("validatePlacement", [cards |-> c])
    \/ \E p \in Placements :
          \E s \in Stacks :
             \/ last = Call("canPlayOnStack", [placement |-> p, stack |-> s])
             \/ last = Call("playOnStack", [placement |-> p, stack |-> s])

PureInit ==
    /\ game = EmptyGame
    /\ loaded = FALSE
    /\ opened = FALSE
    /\ c2s = <<>>
    /\ s2c = <<>>
    /\ srvState = Null
    /\ oracle = <<>>
    /\ moves = 0
    /\ Called

\* the client and the server validate the same cards
CallValidatePlacement ==
    /\ last.op = "call"
    /\ last.by = "validatePlacement"
    /\ Return([client |-> validatePlacement(last.args.cards),
               server |-> srvValidatePlacement(last.args.cards)])

\* canPlayOnStack reads this.stack
CallCanPlayOnStack ==
    /\ last.op = "call"
    /\ last.by = "canPlayOnStack"
    /\ Return(canPlayOnStack([EmptyGame EXCEPT !.stack = last.args.stack],
                             last.args.placement))

\* playOnStack pushes onto this.stack
CallPlayOnStack ==
    /\ last.op = "call"
    /\ last.by = "playOnStack"
    /\ Return(playOnStack([EmptyGame EXCEPT !.stack = last.args.stack],
                          last.args.placement).stack)

CallValidateResponseSchema ==
    /\ last.op = "call"
    /\ last.by = "validateResponseSchema"
    /\ Return(validateResponseSchema(last.args.response))

PureNext ==
    \/ CallValidatePlacement
    \/ CallCanPlayOnStack
    \/ CallPlayOnStack
    \/ CallValidateResponseSchema

PureSpec == PureInit /\ [][PureNext]_vars

----------------------------------------------------------------------------
(* The handler of action-req by itself, with the context it sends: input    *)
(* starts as the request built from this.state and grows by the pushes of  *)
(* the retry loop.  last keeps the answer of the latest pass and the number *)
(* of passes whose answer was parsed and then failed a check.               *)

NoView ==
    [known |-> FALSE, computerHand |-> <<>>, playerHandSize |-> 0,
     stack |-> <<>>, computerVisibleReserve |-> <<>>,
     playerVisibleReserve |-> <<>>, computerHiddenReserveSize |-> 0,
     playerHiddenReserveSize |-> 0, deckSize |-> 0]

\* a prompt that also prints the hand of the opponent
ShownWithHand(state) ==
    IF state = Null THEN NoView
    ELSE [known |-> TRUE,
          computerHand |-> state.computerHand \o state.playerHand,
          playerHandSize |-> Len(state.playerHand),
          stack |-> state.stack,
          computerVisibleReserve |-> state.computerVisibleReserve,
          playerVisibleReserve |-> state.playerVisibleReserve,
          computerHiddenReserveSize |-> Len(state.computerHiddenReserve),
          playerHiddenReserveSize |-> Len(state.playerHiddenReserve),
          deckSize |-> Len(state.deck)]

\* what the template of the request interpolates of this.state (every
\* expression prints undefined when this.state is null)
Shown(state) ==
    IF state = Null THEN NoView
    ELSE [known |-> TRUE,
          computerHand |-> state.computerHand,
          playerHandSize |-> Len(state.playerHand),
          stack |-> state.stack,
          computerVisibleReserve |-> state.computerVisibleReserve,
          playerVisibleReserve |-> state.playerVisibleReserve,
          computerHiddenReserveSize |-> Len(state.computerHiddenReserve),
          playerHiddenReserveSize |-> Len(state.playerHiddenReserve),
          deckSize |-> Len(state.deck)]

\* an EasyInputMessage: the request, an answer pushed back, a reason
Message(role, text, view, answer) ==
    [role |-> role, text |-> text, view |-> view, answer |-> answer]

Request(state) == Message("user", "Current game state", Shown(state), NoJson)

\* input after one pass of the loop: only the semantic failures push
OracleInput(input, answer, state) ==
    IF answer.kind # "json" THEN input
    ELSE IF validateResponseSchema(answer.value) # "null" THEN input
    ELSE IF SemanticallyLegal(state, answer.value) THEN input
    ELSE IF answer.value.action.value = "play"
    THEN LET hand == StateHand(state)
             valid == srvValidatePlacement(
                          SelectAt(hand, IndexedPositions(hand, Indexes(answer.value))))
         IN  input \o <<Message("assistant", "", NoView, answer.value),
                        Message("user", valid, NoView, NoJson)>>
    ELSE input \o <<Message("assistant", "", NoView, answer.value),
                    Message("user", "your hand is not empty", NoView, NoJson)>>

\* the states of the match the server may hold: the stored matches, and the
\* same with the cards the computer does not see dealt differently
RECURSIVE Rotate(_, _)
Rotate(s, n) == IF n = 0 \/ s = <<>> THEN s ELSE Rotate(Tail(s) \o <<Head(s)>>, n - 1)

Redealt(state, n) ==
    LET unseen == Rotate(state.playerHand \o state.playerHiddenReserve
                         \o state.computerHiddenReserve \o state.deck, n)
        a == Len(state.playerHand)
        b == a + Len(state.playerHiddenReserve)
        c == b + Len(state.computerHiddenReserve)
    IN  [state EXCEPT !.playerHand = SubSeq(unseen, 1, a),
                      !.playerHiddenReserve = SubSeq(unseen, a + 1, b),
                      !.computerHiddenReserve = SubSeq(unseen, b + 1, c),
                      !.deck = SubSeq(unseen, c + 1, Len(unseen))]

ServerStates == {Null} \cup {Redealt(state, n) : state \in Snapshots, n \in 0..MaxRedeals}

\* the answer of the latest pass, whether it was parsed and then failed a
\* check, and how many answers did so far
Answered(answer, produced, failed) ==
    [op |-> "answer", answer |-> answer, produced |-> produced,
     failed |-> failed]

RetryInit ==
    /\ game = EmptyGame
    /\ loaded = FALSE
    /\ opened = FALSE
    /\ c2s = <<[type |-> "action-req"]>>
    /\ s2c = <<>>
    /\ srvState \in ServerStates
    /\ oracle = <<>>
    /\ moves = 0
    /\ last = Answered([kind |-> "none", value |-> NoJson], FALSE, 0)

\* the handler runs up to its first await
BuildRequest ==
    /\ Handle("action-req")
    /\ oracle' = Append(oracle, [attempts |-> 0, parsedResponse |-> Null,
                                 input |-> <<Request(srvState)>>])
    /\ UNCHANGED <<game, loaded, opened, s2c, srvState, moves, last>>

\* AI.run settles with an answer to the context it was sent
Query ==
    \E answer \in OracleAnswers :
       LET h == OracleStep(oracle[1], answer, srvState)
           produced == answer.kind = "json" /\ ~h.done
       IN  /\ Len(oracle) = 1
           /\ oracle[1].attempts < MAX_RETRIES
           /\ IF LoopEnds(h)
              THEN /\ Reply(OracleReply(h.parsedResponse))
                   /\ oracle' = <<>>
              ELSE /\ oracle' =
                          <<[attempts |-> h.attempts,
                             parsedResponse |-> h.parsedResponse,
                             input |-> OracleInput(oracle[1].input, answer, srvState)]>>
                   /\ s2c' = s2c
           /\ last' = Answered(answer, produced,
                              last.failed + IF produced THEN 1 ELSE 0)
           /\ UNCHANGED <<game, loaded, opened, c2s, srvState, moves>>

RetryNext == BuildRequest \/ Query

RetrySpec == RetryInit /\ [][RetryNext]_vars

\* every await of the handler settles: the runtime resumes the handler when
\* the promise of AI.run resolves or rejects
RetryFair == RetrySpec /\ WF_vars(RetryNext)

----------------------------------------------------------------------------
(* A match that the user has reset on their first turn.  resetGame deals   *)
(* again and leaves the phase as it is, so the hidden selection and the     *)
(* computer's visible reserve are skipped; the computer has since revealed  *)
(* its three hidden cards and played 8h 8c and Qh, the human 3h, 2h, 6c 6s, *)
(* 10d and Qd Qs.  AfterReset is the state computerTurn saved last.  The    *)
(* oracle names the whole hand of three, a hidden card, or the stack.       *)

AfterReset ==
    Stored(SubSeq(CHOOSE d \in Shuffles : TRUE, 1, 33),
           <<23, 10, 21, 24, 27, 34, 32, 41, 50, 49, 51>>,
           <<8, 53, 59>>, <<>>, <<58, 11, 55>>, <<>>, "player-turn")

WholeHandAnswers ==
    {[kind |-> "throw", value |-> NoJson]}
    \cup {[kind |-> "json", value |-> v] : v \in
            {Json("object", FALSE, Str("stack"), Str("why"), Absent),
             Json("object", FALSE, Str("hidden"), Str("why"), Arr(<<Num(0)>>)),
             Json("object", FALSE, Str("play"), Str("why"),
                  Arr(<<Num(0), Num(1), Num(2)>>))}}

WholeHandAttempt == OracleAttemptOf(WholeHandAnswers)

ResetInit ==
    /\ game = EmptyGame
    /\ loaded = FALSE
    /\ opened = FALSE
    /\ c2s = <<>>
    /\ s2c = <<>>
    /\ srvState = AfterReset
    /\ oracle = <<>>
    /\ moves = 0
    /\ last = NoOp

ResetNext ==
    \/ HandleSocketOpen
    \/ PlayCards
    \/ ClickStack
    \/ ClickOutOfTurn
    \/ ResetGame
    \/ HandleStateLoad
    \/ HandleStateSaved
    \/ HandleStateCleared
    \/ HandleActionRes
    \/ HandleActionError
    \/ ServeStateGet
    \/ ServeStateUpdate
    \/ ServeStateClear
    \/ ServeActionReq
    \/ WholeHandAttempt

ResetSpec == ResetInit /\ [][ResetNext]_vars

----------------------------------------------------------------------------
(* The chat of a match: the client sends what the user typed, and the      *)
(* handler of chat-req keeps the conversation in this.state.chatHistory.   *)
(* oracle holds the handlers of chat-req that wait for AI.run.             *)

ChatTexts == {"hello"}
DefaultReply == "Sorry, I could not generate a response."
ChatError == "Sorry, I encountered an error while thinking about your question."

\* what AI.run of the chat handler does: a text, no text at all, or a throw
ChatOutcomes == {"advice", "", "throw"}

HasChatHistory(state) == "chatHistory" \in DOMAIN state

\* state.chatHistory ?? []
ChatHistoryOf(state) ==
    IF HasChatHistory(state) THEN state.chatHistory ELSE <<>>

\* the state with its chatHistory assigned
WithChat(state, history) ==
    [deck |-> state.deck, stack |-> state.stack,
     playerHand |-> state.playerHand,
     playerHiddenReserve |-> state.playerHiddenReserve,
     playerVisibleReserve |-> state.playerVisibleReserve,
     computerHand |-> state.computerHand,
     computerHiddenReserve |-> state.computerHiddenReserve,
     computerVisibleReserve |-> state.computerVisibleReserve,
     gamePhase |-> state.gamePhase,
     chatHistory |-> history]

\* this.state.chatHistory.push(message) of a state that has a chatHistory
PushChat(state, role, content) ==
    WithChat(state, Append(state.chatHistory, [role |-> role, content |-> content]))

\* the handler up to its await of AI.run
ChatReceived(state, message) ==
    IF state = Null THEN Null
    ELSE PushChat(WithChat(state, ChatHistoryOf(state)), "player", message)

\* the handler after AI.run: the state it stores and the chat-res it sends.
\* The push on a state that a state-update has assigned meanwhile throws,
\* and the catch block answers as it does for a failure of AI.run.
ChatSettled(state, outcome) ==
    LET text == IF outcome = "" THEN DefaultReply ELSE outcome
    IN  IF outcome = "throw" \/ (state # Null /\ ~HasChatHistory(state))
        THEN [state |-> state, message |-> ChatError]
        ELSE [state |-> IF state = Null THEN Null
                        ELSE PushChat(state, "assistant", text),
              message |-> text]

sendChatMessage ==
    /\ opened
    /\ Budget
    /\ Outstanding < MaxInFlight
    /\ \E message \in ChatTexts :
          c2s' = Append(c2s, [type |-> "chat-req", message |-> message])
    /\ UNCHANGED <<game, loaded, opened, s2c, srvState, oracle, last>>

ServeChatReq ==
    /\ Handle("chat-req")
    /\ srvState' = ChatReceived(srvState, Head(c2s).message)
    /\ oracle' = Append(oracle, [message |-> Head(c2s).message])
    /\ UNCHANGED <<game, loaded, opened, s2c, moves, last>>

ChatAttempt ==
    \E i \in 1..Len(oracle), outcome \in ChatOutcomes :
       LET settled == ChatSettled(srvState, outcome)
       IN  /\ srvState' = settled.state
           /\ Reply([type |-> "chat-res", message |-> settled.message])
           /\ oracle' = RemoveAt(oracle, {i})
           /\ UNCHANGED <<game, loaded, opened, c2s, moves, last>>

HandleChatRes ==
    /\ Receive("chat-res")
    /\ UNCHANGED <<game, loaded, opened, c2s, srvState, oracle, moves, last>>

ChatInit ==
    /\ game = EmptyGame
    /\ loaded = FALSE
    /\ opened = FALSE
    /\ c2s = <<>>
    /\ s2c = <<>>
    /\ srvState \in {Null, AfterHiding}
    /\ oracle = <<>>
    /\ moves = 0
    /\ last = NoOp

ChatNext ==
    \/ HandleSocketOpen
    \/ ConfirmHiddenReserve
    \/ ConfirmVisiblePlacement
    \/ PlayCards
    \/ sendChatMessage
    \/ HandleStateLoad
    \/ HandleStateNone
    \/ HandleStateSaved
    \/ HandleChatRes
    \/ ServeStateGet
    \/ ServeStateUpdate
    \/ ServeChatReq
    \/ ChatAttempt

ChatSpec == ChatInit /\ [][ChatNext]_vars

----------------------------------------------------------------------------
(* The connections of one GameDataServer: the browser tabs of one user     *)
(* reach the same object, which answers their upgrade requests in fetch.   *)
(* srvState holds the object's fields and the sockets it has accepted,     *)
(* last the response to the latest request or the message handled last.    *)

\* browser tabs of the user that try to connect
MaxClients == 2
Clients == 1..MaxClients

\* the object after construction
GameDataServer == [connected |-> FALSE, state |-> Null, sockets |-> {}]

\* fetch: the status of the response, and the object after the call
fetch(server, client) ==
    IF server.connected THEN [status |-> 400, server |-> server]
    ELSE [status |-> 101,
          server |-> [server EXCEPT !.sockets = @ \cup {client}]]

\* webSocketClose: the socket of the client is closed
webSocketClose(server, client) == [server EXCEPT !.sockets = @ \ {client}]

\* the messages of the client that change the match or query the oracle
Writes ==
    {[type |-> "state-update", state |-> state] : state \in {AtLastCard, AfterPickup}}
    \cup {[type |-> "state-clear", state |-> Null],
          [type |-> "action-req", state |-> Null]}

\* webSocketMessage as far as it assigns this.state
Written(server, msg) ==
    IF msg.type \in {"state-update", "state-clear"}
    THEN [server EXCEPT !.state = msg.state] ELSE server

ConnectInit ==
    /\ game = EmptyGame
    /\ loaded = FALSE
    /\ opened = FALSE
    /\ c2s = <<>>
    /\ s2c = <<>>
    /\ srvState = GameDataServer
    /\ oracle = <<>>
    /\ moves = 0
    /\ last = [op |-> "none", by |-> 0, status |-> 0]

\* a tab constructs its WebSocket and the worker hands the request to fetch
Connect ==
    \E client \in Clients \ srvState.sockets :
       LET response == fetch(srvState, client)
       IN  /\ srvState' = response.server
           /\ last' = [op |-> "fetch", by |-> client, status |-> response.status]
           /\ UNCHANGED <<game, loaded, opened, c2s, s2c, oracle, moves>>

\* a tab is closed
Disconnect ==
    \E client \in srvState.sockets :
       /\ srvState' = webSocketClose(srvState, client)
       /\ last' = [op |-> "close", by |-> client, status |-> 0]
       /\ UNCHANGED <<game, loaded, opened, c2s, s2c, oracle, moves>>

\* a connected tab sends a message
ClientWrites ==
    \E client \in srvState.sockets, msg \in Writes :
       /\ Len(c2s) < MaxInFlight
       /\ c2s' = Append(c2s, [from |-> client, msg |-> msg])
       /\ UNCHANGED <<game, loaded, opened, s2c, srvState, oracle, moves, last>>

\* the object handles the message
ServeWrite ==
    /\ Len(c2s) > 0
    /\ c2s' = Tail(c2s)
    /\ srvState' = Written(srvState, Head(c2s).msg)
    /\ last' = [op |-> Head(c2s).msg.type, by |-> Head(c2s).from, status |-> 0]
    /\ UNCHANGED <<game, loaded, opened, s2c, oracle, moves>>

ConnectNext == Connect \/ Disconnect \/ ClientWrites \/ ServeWrite

ConnectSpec == ConnectInit /\ [][ConnectNext]_vars

----------------------------------------------------------------------------
(* The end of a match: the computer holds its three hidden cards only, an  *)
(* Ace among them, and the human two cards and a hidden reserve.  The      *)
(* oracle names a hidden card or fails.                                    *)

\* operations explored from the stored match
EndMoves == 7

HiddenAnswers ==
    {[kind |-> "throw", value |-> NoJson]}
    \cup {[kind |-> "json", value |-> v] : v \in
            {Json("object", FALSE, Str("hidden"), Str("why"), Arr(<<Num(i)>>)) :
                i \in 0..MaxIndex}}

HiddenAttempt == OracleAttemptOf(HiddenAnswers)

EndInit ==
    /\ game = EmptyGame
    /\ loaded = FALSE
    /\ opened = FALSE
    /\ c2s = <<>>
    /\ s2c = <<>>
    /\ srvState = AtHiddenReveal
    /\ oracle = <<>>
    /\ moves = MaxMoves - EndMoves
    /\ last = NoOp

EndNext ==
    \/ HandleSocketOpen
    \/ PlayCards
    \/ ClickStack
    \/ HandleStateLoad
    \/ HandleStateSaved
    \/ HandleStateCleared
    \/ HandleActionRes
    \/ HandleActionError
    \/ ServeStateGet
    \/ ServeStateUpdate
    \/ ServeStateClear
    \/ ServeActionReq
    \/ HiddenAttempt

EndSpec == EndInit /\ [][EndNext]_vars

----------------------------------------------------------------------------
(* The claims *)

\* every card the match holds, container by container
AllCards(g) ==
    g.deck \o g.stack \o g.playerHand \o g.playerHiddenReserve
    \o Flatten(g.playerVisibleReserve)
    \o g.computerHand \o g.computerHiddenReserve
    \o Flatten(g.computerVisibleReserve) \o g.discard

\* an operation has just been applied to the match
Operated == last'.n # last.n

IsPlacement(op) == op.op \in {"placement", "hidden-placement"}
HasAceIn(cards) == \E c \in Range(cards) : Rank(c) = Ace
TurnOf(who) == IF who = "player" THEN "player-turn" ELSE "computer-turn"
Other(who) == IF who = "player" THEN "computer" ELSE "player"

\* the messages of a channel whose type is one of types
Count(channel, types) ==
    Cardinality({i \in 1..Len(channel) : channel[i].type \in types})

\* the action requests sent and not answered to the client yet
RequestsOutstanding ==
    Count(c2s, {"action-req"}) + Len(oracle)
    + Count(s2c, {"action-res", "action-error"})

\* an answer passes the structural and the semantic check
Passes(state, response) ==
    /\ validateResponseSchema(response) = "null"
    /\ SemanticallyLegal(state, response)

\* the containers other than the stack and the hand of who are as they were
FrameOfTake(who) ==
    /\ game'.deck = game.deck
    /\ game'.discard = game.discard
    /\ game'[Hand(Other(who))] = game[Hand(Other(who))]
    /\ \A w \in {"player", "computer"} :
          /\ game'[Visible(w)] = game[Visible(w)]
          /\ game'[Hidden(w)] = game[Hidden(w)]

\* no container of the match changes
ContainersKept ==
    /\ game'.deck = game.deck
    /\ game'.stack = game.stack
    /\ game'.discard = game.discard
    /\ \A w \in {"player", "computer"} :
          /\ game'[Hand(w)] = game[Hand(w)]
          /\ game'[Visible(w)] = game[Visible(w)]
          /\ game'[Hidden(w)] = game[Hidden(w)]

\* C1: in every state of a loaded match each of the 52 cards is in exactly
\* one of the deck, the hands, the reserves, the stack and the discard pile.
C1_Conservation ==
    loaded => /\ Len(AllCards(game)) = Cardinality(Cards)
              /\ Range(AllCards(game)) = Cards

\* C2: at most one action request of the match is outstanding at any time.
C2_OneRequest == RequestsOutstanding <= 1

\* C3: every oracle action and every fallback is applied in the phase
\* computer-turn.
C3_InTurn == last.by = "computer" => last.pre = "computer-turn"

\* C4: an action request whose attempts all fail is answered by action-error:
\* whenever the handler of a request replies action-res, the action it
\* delivers passes the structural and the semantic check.
C4_NoFailedAnswer ==
    [][Len(oracle') < Len(oracle) =>
          LET reply == s2c'[Len(s2c')]
          IN  reply.type = "action-res" => Passes(srvState, reply.action)]_vars

\* C5: every placement the computer pushes for a play action is a valid
\* shape and legal on the stack it is pushed onto.
C5_LegalPlay ==
    [][(Operated /\ last'.by = "computer" /\ last'.op = "placement") =>
          LET placement == validatePlacement(last'.cards)
          IN  placement # Null /\ canPlayOnStack(game, placement)]_vars

\* C6: no state that awaits a further action has a player whose hand, visible
\* reserve and hidden reserve are all empty.
C6_WinDetected ==
    (loaded /\ game.gamePhase \in {"player-turn", "computer-turn"})
        => ~Wins(game)

\* C7: once the phase is game-over, it stays game-over and no container
\* changes, whatever arrives, until the user resets the match.
C7_Terminal ==
    [][(game.gamePhase = "game-over" /\ ~(Operated /\ last'.op = "reset")) =>
          (game'.gamePhase = "game-over" /\ ContainersKept)]_vars

\* C8: a placement that contains an Ace sends the stack and the cards played
\* to the discard pile, leaves the stack empty and leaves the turn with the
\* player who placed it.
C8_AceChain ==
    [][(Operated /\ IsPlacement(last') /\ HasAceIn(last'.cards)) =>
          /\ game'.stack = <<>>
          /\ game'.discard = game.discard \o game.stack \o SortByRank(last'.cards)
          /\ game'.gamePhase = TurnOf(last'.by)]_vars

\* C9: a legal placement without an Ace that wins nothing passes the turn to
\* the other player, and the player who placed it places nothing more before
\* the other player has acted.
C9_TurnEnds ==
    [][/\ (Operated /\ IsPlacement(last') /\ last'.legal
             /\ ~HasAceIn(last'.cards) /\ ~Wins(game'))
          => game'.gamePhase = TurnOf(Other(last'.by))
       /\ (Operated /\ IsPlacement(last) /\ last.legal
             /\ ~HasAceIn(last.cards) /\ game.gamePhase # "game-over")
          => ~(IsPlacement(last') /\ last'.by = last.by)]_vars

\* C10: taking the stack moves the stack into the hand of the taker, leaves
\* the stack empty and every other container as it was, and passes the turn
\* to the other player, who acts before the taker places anything.
C10_TakeStack ==
    [][/\ (Operated /\ last'.op = "take")
          => /\ game'.stack = <<>>
             /\ game'[Hand(last'.by)] =
                   (IF last'.by = "player"
                    THEN sortHand(game.playerHand \o game.stack)
                    ELSE game.computerHand \o game.stack)
             /\ FrameOfTake(last'.by)
             /\ game'.gamePhase = TurnOf(Other(last'.by))
       /\ (Operated /\ last.op = "take")
          => ~(IsPlacement(last') /\ last'.by = last.by)]_vars

\* the placement the user attempts with the cards at the positions S
Attempt(S) == validatePlacement(SelectAt(game.playerHand, S))

\* C11: a placement attempt of the user whose cards are no valid shape, or
\* are not legal on the stack, changes no container, not the phase, and sends
\* nothing.
C11_Rejected ==
    (loaded /\ game.gamePhase = "player-turn") =>
        \A S \in Selections :
            (Attempt(S) = Null \/ ~canPlayOnStack(game, Attempt(S)))
                => playSelectedCards(game, S) = game

C11_Witness ==
    /\ loaded
    /\ game.gamePhase = "player-turn"
    /\ \E S \in Selections : Cardinality(S) > 1 /\ Attempt(S) = Null
    /\ \E S \in Selections :
          Attempt(S) # Null /\ ~canPlayOnStack(game, Attempt(S))
    /\ last.op \in {"placement", "take", "hidden-take"}
    /\ last.by = "computer"

\* who has no hand and no visible reserve left and still has hidden cards
MustReveal(g, who) ==
    /\ Len(g[Hand(who)]) = 0
    /\ Len(g[Visible(who)]) = 0
    /\ Len(g[Hidden(who)]) > 0

\* the operations that reveal a card of the hidden reserve
IsReveal(op) == op.op \in {"reveal", "hidden-placement", "hidden-take"}

\* C12: an action applied in the turn of a player whose hand and visible
\* reserve are empty and whose hidden reserve is not is the reveal of a hidden
\* card, never a placement from the hand and never a pickup of the stack.
C12_OnlyReveal ==
    [][(Operated /\ last'.by \in {"player", "computer"}
          /\ last'.op # "reset"
          /\ last'.pre = TurnOf(last'.by)
          /\ MustReveal(game, last'.by))
        => IsReveal(last')]_vars
\* C13: an action applied in the turn of its player takes a card out of a
\* hidden reserve only if the hand and the visible reserve of the owner of
\* that reserve are empty; a reveal attempted otherwise changes nothing.
C13_HiddenGuarded ==
    [][(Operated /\ last'.by \in {"player", "computer"}
          /\ last'.op # "reset"
          /\ last'.pre = TurnOf(last'.by))
        => \A who \in {"player", "computer"} :
              Len(game'[Hidden(who)]) < Len(game[Hidden(who)])
                  => /\ Len(game[Hand(who)]) = 0
                     /\ Len(game[Visible(who)]) = 0]_vars
\* the cards that left the hidden reserve of who in the step
Revealed(who) == Range(game[Hidden(who)]) \ Range(game'[Hidden(who)])

\* the one-card placement of the card the user has revealed into the hand
RevealedPlacement == [cards |-> game.playerHand, type |-> "single"]

\* C14: a hidden card revealed in the turn of its owner that is not legal on
\* the stack ends in the owner's hand together with the whole stack, the stack
\* is empty and the turn passes; a legal one is placed as a single card, an
\* Ace discarding the stack and keeping the turn, any other card passing it.
C14_RevealResolved ==
    [][/\ (Operated /\ last'.op = "hidden-take" /\ last'.pre = "computer-turn")
          => /\ Cardinality(Revealed("computer")) = 1
             /\ Range(game'.computerHand) =
                   Range(game.computerHand) \cup Range(game.stack)
                   \cup Revealed("computer")
             /\ game'.stack = <<>>
             /\ game'.gamePhase = "player-turn"
       /\ (Operated /\ last'.op = "hidden-placement"
             /\ last'.pre = "computer-turn")
          => /\ Revealed("computer") = Range(last'.cards)
             /\ IF HasAceIn(last'.cards)
                THEN /\ game'.stack = <<>>
                     /\ game'.discard = game.discard \o game.stack \o last'.cards
                     /\ game'.gamePhase = "computer-turn"
                ELSE /\ game'.stack = game.stack \o last'.cards
                     /\ game'.gamePhase \in {"player-turn", "game-over"}
       /\ (Operated /\ last.op = "reveal" /\ last'.by = "player"
             /\ last'.op # "reset" /\ game.gamePhase = "player-turn")
          => IF canPlayOnStack(game, RevealedPlacement)
             THEN last'.op = "placement" /\ last'.cards = game.playerHand
             ELSE last'.op = "take"]_vars
\* the phases in which the match awaits an action of a player
Awaiting(g) == g.gamePhase \in {"player-turn", "computer-turn"}

\* C15: whenever an action is awaited, the deck is empty or each hand holds
\* at least MinHand cards.
C15_MinimumHand ==
    (loaded /\ Awaiting(game)) =>
        \/ Len(game.deck) = 0
        \/ \A who \in {"player", "computer"} : Len(game[Hand(who)]) >= MinHand
\* C16: no action is awaited from a player whose hand is empty while that
\* player's visible reserve still holds a placement.
C16_ReserveTaken ==
    loaded =>
        \A who \in {"player", "computer"} :
            game.gamePhase = TurnOf(who)
                => ~(Len(game[Hand(who)]) = 0 /\ Len(game[Visible(who)]) > 0)
\* both players hold what setup is to leave them with
SetUp(g) ==
    \A who \in {"player", "computer"} :
        /\ Len(g[Hand(who)]) = MinHand
        /\ Len(g[Hidden(who)]) = ReserveSize
        /\ Len(g[Visible(who)]) = ReserveSize
        /\ \A i \in 1..Len(g[Visible(who)]) :
              validatePlacement(g[Visible(who)][i].cards) # Null

\* C17: when the last placement of the visible reserve turns the phase into
\* player-turn, each player holds three cards in hand, three valid visible
\* placements and three hidden cards.
C17_SetupComplete ==
    [][(game.gamePhase = "selecting-visible-reserve"
          /\ game'.gamePhase = "player-turn") => SetUp(game')]_vars
\* the answer of the oracle passes both checks of the server
Valid(answer) == answer.kind = "json" /\ Passes(srvState, answer.value)

\* C18: a handler suspended in a query has made fewer than MAX_RETRIES
\* queries; whatever the answer, the query counts once, the loop is left if
\* the answer passes both checks, and it goes on to a further query only after
\* a failed answer and below MAX_RETRIES queries: every request costs between
\* 1 and MAX_RETRIES queries and its loop ends whatever the oracle answers.
C18_BoundedRetries ==
    \A i \in 1..Len(oracle) :
        /\ oracle[i].attempts \in 0..(MAX_RETRIES - 1)
        /\ \A answer \in OracleAnswers :
              LET h == OracleStep(oracle[i], answer, srvState)
              IN  /\ h.attempts = oracle[i].attempts + 1
                  /\ h.attempts \in 1..MAX_RETRIES
                  /\ Valid(answer) => LoopEnds(h)
                  /\ ~LoopEnds(h) => (~Valid(answer) /\ h.attempts < MAX_RETRIES)
                  /\ LoopEnds(h) => (Valid(answer) \/ h.attempts = MAX_RETRIES)

\* the loop has ended after MAX_RETRIES queries without an accepted answer
\* while another handler is on its last query
C18_Witness ==
    /\ Count(s2c, {"action-error"}) > 0
    /\ \E i \in 1..Len(oracle) : oracle[i].attempts = MAX_RETRIES - 1
Quiet == c2s = <<>> /\ s2c = <<>> /\ oracle = <<>>

\* C20: the match is never in computer-turn with nothing on its way that
\* could end the turn.  While the phase is computer-turn a saved state, an
\* action request, a query or its answer is pending, so that the delivery of
\* the messages ends the turn in player-turn or game-over; in a quiet state
\* no handler runs again and the phase stays computer-turn for ever.
C20_NeverBlocked ==
    (loaded /\ game.gamePhase = "computer-turn") => ~Quiet

\* the user is to act and can do nothing: no card in hand, no hidden card to
\* reveal and no card on the stack to click
Stuck(g) ==
    /\ g.gamePhase = "player-turn"
    /\ Len(g.playerHand) = 0
    /\ ~(CanDrawHidden(g) /\ Len(g.playerHiddenReserve) > 0)
    /\ Len(g.stack) = 0

\* C21: a match in which both sides always place the lowest legal rank they
\* hold, and take the stack only when no card is legal, goes on until it
\* is game-over, which it is before MaxTurns choices have been made, and at
\* game-over exactly one player holds nothing.
C21_MatchEnds ==
    IF game.gamePhase = "game-over"
    THEN HasNothing(game, "player") # HasNothing(game, "computer")
    ELSE ~Stuck(game) /\ moves < MaxTurns

\* the ranks of the cards of an array
RanksOf(cards) == {Rank(c) : c \in Range(cards)}

\* the shape the rules give an array of cards, "none" if they give none
Shape(cards) ==
    IF Len(cards) = 0 THEN "none"
    ELSE IF Len(cards) = 1 THEN "single"
    ELSE IF Cardinality(RanksOf(cards)) = 1 THEN "multiple"
    ELSE IF /\ Len(cards) >= 3
            /\ Cardinality(RanksOf(cards)) = Len(cards)
            /\ \E lo \in Ranks : RanksOf(cards) = lo..(lo + Len(cards) - 1)
         THEN "straight"
    ELSE "none"

Jack == 11

\* the placement has a card of the lowest rank that the rules let on the top
LowEnough(cards, top) ==
    \E c \in Range(cards) :
        /\ \A d \in Range(cards) : Rank(c) <= Rank(d)
        /\ Rank(c) \in {Two, Ace} \/ Rank(c) >= Rank(top)

\* C23: canPlayOnStack is true exactly if the stack is empty, or the lowest
\* rank of the placement is 2 or Ace, or that rank is at least the rank of
\* the last card of the stack; on a Jack, Jack is legal, 10 Jack Queen is not,
\* Queen King Ace is, and a placement whose lowest rank is 2 is legal on every
\* card.
C23_Legality ==
    (last.op = "return" /\ last.by = "canPlayOnStack") =>
        LET cards == last.args.placement.cards
            stack == last.args.stack
            ranks == RanksOf(cards)
        IN  /\ last.result
                  <=> (stack = <<>> \/ LowEnough(cards, stack[Len(stack)]))
            /\ (stack # <<>> /\ Rank(stack[Len(stack)]) = Jack) =>
                  /\ ranks = {Jack} => last.result
                  /\ ranks = {10, Jack, 12} => ~last.result
                  /\ ranks = {12, 13, Ace} => last.result
            /\ Two \in ranks => last.result

\* 10 Jack Queen has been refused on a stack of a King under a Jack
C23_Witness ==
    /\ last.op = "return"
    /\ last.by = "canPlayOnStack"
    /\ last.args.stack = <<4 * 13, 4 * Jack>>
    /\ RanksOf(last.args.placement.cards) = {10, Jack, 12}
    /\ ~last.result
\* C24: the structural check accepts an answer exactly when it is an object
\* whose fields are among action, indexes and whyMoveIsValid, whose action is
\* play, stack or hidden, whose rationale is a string, whose indexes (when
\* present) is an array of integers, with indexes present and non-empty for
\* play and present with exactly one element for hidden; every other answer
\* is a schema error.
WellFormed(response) ==
    /\ response.shape = "object"
    /\ ~response.extraKeys
    /\ response.action.present /\ response.action.ok
    /\ response.action.value \in {"play", "stack", "hidden"}
    /\ response.why.present /\ response.why.ok
    /\ response.indexes.present =>
          /\ response.indexes.ok
          /\ \A i \in 1..Len(response.indexes.items) :
                /\ response.indexes.items[i].isNumber
                /\ response.indexes.items[i].half = 0
    /\ response.action.value = "play" =>
          response.indexes.present /\ Len(response.indexes.items) > 0
    /\ response.action.value = "hidden" =>
          response.indexes.present /\ Len(response.indexes.items) = 1

C24_Schema ==
    (last.op = "return" /\ last.by = "validateResponseSchema") =>
        (last.result = "null" <=> WellFormed(last.args.response))

\* C25: after every failed attempt that produced an answer, the context sent
\* with the next query holds that answer followed by a one-line reason, after
\* everything it held before: after n such failures it is the initial request
\* plus n pairs of answer and reason.
C25_Context ==
    Len(oracle) = 1 =>
        LET input == oracle[1].input
            n == Len(input)
        IN  /\ input[1] = Request(srvState)
            /\ n = 1 + 2 * last.failed
            /\ last.produced =>
                  /\ input[n - 1].role = "assistant"
                  /\ input[n - 1].answer = last.answer.value
                  /\ input[n].role = "user"
                  /\ input[n].text # ""

\* C26: the request to the oracle is a function of the computer's own hand,
\* the size of the human's hand, the stack, both visible reserves, the sizes
\* of both hidden reserves and the size of the deck: any state of the match
\* that agrees with the server's on these yields the same request, and the
\* same context after the same answer.
View(state) ==
    <<state.computerHand, Len(state.playerHand), state.stack,
      state.computerVisibleReserve, state.playerVisibleReserve,
      Len(state.computerHiddenReserve), Len(state.playerHiddenReserve),
      Len(state.deck)>>

Alike(state) ==
    {other \in ServerStates \ {Null} : state # Null /\ View(other) = View(state)}

C26_OwnView ==
    Len(oracle) = 1 =>
        \A other \in Alike(srvState) :
           /\ oracle[1].input[1] = Request(other)
           /\ \A answer \in OracleAnswers :
                 OracleInput(oracle[1].input, answer, other)
                 = OracleInput(oracle[1].input, answer, srvState)

C26_Witness ==
    /\ Len(oracle) = 1
    /\ Len(oracle[1].input) > 1
    /\ \E other \in Alike(srvState) :
          /\ other.playerHand # srvState.playerHand
          /\ other.deck # srvState.deck

\* C27: the intents of the human change the match only in the phases
\* selecting-hidden-reserve, selecting-visible-reserve and player-turn: in
\* computer-turn and game-over every click on a card and every press of the
\* Play button leaves the deck, the stack, the hands, the reserves and the
\* phase as they are.
Table(g) ==
    <<g.deck, g.stack, g.playerHand, g.playerHiddenReserve,
      g.playerVisibleReserve, g.computerHand, g.computerHiddenReserve,
      g.computerVisibleReserve, g.gamePhase>>

C27_OutOfTurn ==
    game.gamePhase \in {"computer-turn", "game-over"} =>
        /\ \A S \in Selections :
              Table(handlePlayButton(game, S)) = Table(game)
        /\ \A card \in Cards :
              Table(handleCardClick(game, card)) = Table(game)

C27_Witness ==
    /\ game.gamePhase = "computer-turn"
    /\ Len(game.stack) > 0
    /\ \E S \in Selections :
          LET placement == validatePlacement(SelectAt(game.playerHand, S))
          IN  placement # Null /\ canPlayOnStack(game, placement)

\* C28: the step that takes a match to game-over sends state-clear after
\* everything else it sends, and from then on no step sends a state-update of
\* that match (until the user resets it), so the server holds no snapshot for
\* a later connect.
SentNow == SubSeq(c2s', Len(c2s) + 1, Len(c2s'))

C28_ClearedForGood ==
    [][/\ (opened /\ game.gamePhase # "game-over" /\ game'.gamePhase = "game-over") =>
             (SentNow # <<>> /\ SentNow[Len(SentNow)].type = "state-clear")
       /\ (game.gamePhase = "game-over" /\ ~(Operated /\ last'.op = "reset")) =>
             \A i \in 1..Len(SentNow) : SentNow[i].type # "state-update"]_vars

\* C29: once the human has made the third placement of their visible reserve
\* the phase is player-turn, and until the human acts no action of the oracle
\* is requested, awaited or applied.
SetupDone ==
    /\ last.op = "setup"
    /\ Len(game.playerVisibleReserve) = ReserveSize

C29_HumanFirst ==
    [][/\ SetupDone' =>
             /\ game'.gamePhase = "player-turn"
             /\ RequestsOutstanding' = 0
       /\ (SetupDone /\ Operated) => last'.by = "player"]_vars

C29_Witness ==
    /\ SetupDone
    /\ game.gamePhase = "player-turn"
    /\ Count(s2c, {"state-saved"}) > 0

\* C30: whenever the phase becomes game-over, the deck is empty.
C30_DeckExhausted ==
    [][(game.gamePhase # "game-over" /\ game'.gamePhase = "game-over") =>
          Len(game'.deck) = 0]_vars

\* s is an initial part of t
IsPrefix(s, t) == Len(s) <= Len(t) /\ SubSeq(t, 1, Len(s)) = s

\* C31: the chat messages recorded for a match stay in the persisted state:
\* no step of the server, the handling of a state-update included, removes
\* or reorders a message of the chatHistory that state-get returns
C31_ChatKept ==
    [][(srvState # Null /\ srvState' # Null)
        => IsPrefix(ChatHistoryOf(srvState), ChatHistoryOf(srvState'))]_vars

\* the latest pass of the retry loop left it by a break on success
Accepted ==
    /\ last.op = "answer"
    /\ last.answer.kind = "json"
    /\ ~last.produced

InRange(indexes, size) ==
    \A k \in 1..Len(indexes) : indexes[k] \in 0..(size - 1)

\* C32: every index of an accepted action names an existing card: of the
\* computer's hand for a play, of its remaining hidden reserve for a hidden
C32_IndexesExist ==
    Accepted =>
       LET action == ActionOf(last.answer.value)
       IN  /\ action.action = "play" =>
                InRange(action.indexes, Len(StateHand(srvState)))
           /\ action.action = "hidden" =>
                /\ srvState # Null
                /\ InRange(action.indexes, Len(srvState.computerHiddenReserve))

Ascending(cards) ==
    \A i, j \in 1..Len(cards) : i < j => Rank(cards[i]) <= Rank(cards[j])

\* C33: playOnStack leaves the cards of the stack below the cards it pushes,
\* pushes the cards of the placement and no others in ascending rank order
\* whatever the order of the selection, and after a placement without an Ace
\* the top of the stack has the highest rank of the placement
C33_PushedAscending ==
    (last.op = "return" /\ last.by = "playOnStack") =>
       LET below == last.args.stack
           cards == last.args.placement.cards
           pushed == SubSeq(last.result, Len(below) + 1, Len(last.result))
       IN  /\ Len(last.result) = Len(below) + Len(cards)
           /\ SubSeq(last.result, 1, Len(below)) = below
           /\ Range(pushed) = Range(cards)
           /\ Ascending(pushed)
           /\ ~hasAce(last.args.placement) =>
                 \A c \in Range(cards) :
                    Rank(c) <= Rank(last.result[Len(last.result)])

\* a straight selected from its highest card down has been pushed on a stack
C33_Witness ==
    /\ last.op = "return"
    /\ last.by = "playOnStack"
    /\ last.args.placement.type = "straight"
    /\ ~hasAce(last.args.placement)
    /\ ~Ascending(last.args.placement.cards)
    /\ Len(last.args.stack) > 0
    /\ Len(last.result) = Len(last.args.stack) + Len(last.args.placement.cards)

\* the operations of a match that the client resolves: the setup steps, the
\* placements, pickups and reveals of both sides, and the fallback
Resolved ==
    last.op \in {"setup", "placement", "take", "reveal", "hidden-placement",
                 "hidden-take", "pass", "throw", "fallback"}

\* C34: when no message is in flight and the operation applied last is an
\* action of the match, the state stored on the server is the state of the
\* client: its deck, stack, hands, reserves and phase
C34_SnapshotCurrent ==
    (Quiet /\ opened /\ Resolved) => srvState = getGameState(game)

IsReply(msg) == msg.type \in {"action-res", "action-error"}

\* C35: the action-req gets exactly one reply, an action-res or an
\* action-error: never more than one message is sent for it, and whatever
\* the oracle answers the handler ends with its one reply sent
C35_OneReply ==
    /\ [](Len(s2c) <= 1 /\ \A i \in 1..Len(s2c) : IsReply(s2c[i]))
    /\ <>[](Len(s2c) = 1 /\ c2s = <<>> /\ oracle = <<>>)

\* the reply has been sent after answers that failed a check
C35_Witness ==
    /\ Len(s2c) = 1
    /\ IsReply(s2c[1])
    /\ oracle = <<>>
    /\ last.failed > 1

\* the match as startNewGame deals it, in the phase the constructor sets
Fresh(g) ==
    /\ g.gamePhase = "selecting-hidden-reserve"
    /\ Len(g.playerHand) = DealSize
    /\ Len(g.computerHand) = DealSize - ReserveSize
    /\ Len(g.computerHiddenReserve) = ReserveSize
    /\ Len(g.deck) = Cardinality(Cards) - 2 * DealSize
    /\ g.stack = <<>>
    /\ g.playerVisibleReserve = <<>>
    /\ g.computerVisibleReserve = <<>>
    /\ g.playerHiddenReserve = <<>>

\* C36: a reset confirmed in any phase leaves a fresh match in the phase
\* selecting-hidden-reserve and asks the server to clear the stored state
C36_ResetIsFresh ==
    [][(Operated /\ last'.op = "reset") =>
          /\ Fresh(game')
          /\ opened => (Len(c2s') > 0 /\ c2s'[Len(c2s')].type = "state-clear")]_vars

\* C37: the object holds at most one open connection: the upgrade request of
\* a second client is answered 400 while a connection is open, so that the
\* messages it handles come from one client at a time
C37_SingleClient ==
    /\ Cardinality(srvState.sockets) <= 1
    /\ (last.op = "fetch" /\ srvState.sockets # {last.by}) => last.status = 400

\* the operation applied last has ended the match
MatchEnded ==
    /\ Operated
    /\ game.gamePhase # "game-over"
    /\ game'.gamePhase = "game-over"

\* C38: when an action ends the match, the side declared the winner is the
\* side that acted and the other side still holds a card
C38_ActorWins ==
    [][MatchEnded =>
          /\ Declared(game') = last'.by
          /\ ~HasNothing(game', Other(last'.by))]_vars

====
